---- MODULE Spec2Model ----
(***************************************************************************)
(* Model of the offboard example programs of offboard_velocity.            *)
(*                                                                         *)
(* The repository contains scripted routines offb_ctrl_* that drive a      *)
(* mavsdk::Offboard object: they set one setpoint, call start(), set a     *)
(* sequence of setpoints separated by sleeps, optionally call stop() and   *)
(* return.  The Offboard object itself belongs to the MAVSDK library; what *)
(* the routines see of it is the Result each call returns, which is drawn  *)
(* here from Results.  A routine is modelled statement by statement: the   *)
(* script of a routine lists its calls on the Offboard object in program   *)
(* order, and one action executes the statement at position pc.            *)
(***************************************************************************)
EXTENDS Integers, Sequences, FiniteSets, TLC

(***************************************************************************)
(* Values of Offboard::Result as the routines distinguish them: Success    *)
(* against anything else (two other values stand for "anything else").     *)
(***************************************************************************)
Results == {"Success", "Timeout", "CommandDenied"}

\* Number of iterations of the "Go North and back South" loop:
\* steps = 2 * unsigned(one_cycle / step_size) = 2 * unsigned(6.2831855 / 0.01) = 2 * 628
LoopSteps == 1256

\* failedAt value while no setpoint update has failed
NoFail == -1

\* Statements of a routine that touch the Offboard object
Set(call, ln) == [op |-> "set", call |-> call, line |-> ln, n |-> 1,
                  var |-> "none", decl |-> "none", assigns |-> << >>]
For(call, ln, n) == [op |-> "for", call |-> call, line |-> ln, n |-> n]

\* A step of offb_ctrl_ned whose values are modelled: the declaration `decl{}` (or
\* "none"), the field assignments << variable, field, value >> in program order,
\* and the call offboard.set_velocity_ned(var).  Values are hundredths of the
\* unit (m/s, degrees).
SetVar(call, var, decl, assigns, ln) ==
    [op |-> "set", call |-> call, line |-> ln, n |-> 1,
     var |-> var, decl |-> decl, assigns |-> assigns]

\* Offboard::VelocityNedYaw x{};  every field is zero
ZeroNed == [north |-> 0, east |-> 0, down |-> 0, yaw |-> 0]

\* the local VelocityNedYaw variables of offb_ctrl_ned
NedVars == {"stay", "turn_east", "north_and_back_south", "turn_west", "up_and_south",
            "down_and_north"}

\* float vx = 5.0f * sinf(i * step_size): the value has no integer form, Vx(k)
\* is a token for the k-th sample, outside the range of the literal values
Vx(k) == 1000000 + k

\* the statements of the loop body before the call:
\* north_and_back_south.north_m_s = vx; north_and_back_south.yaw_deg = 90.0f;
LoopAssigns(k) ==
    << << "north_and_back_south", "north", Vx(k) >>,
       << "north_and_back_south", "yaw", 9000 >> >>
Start(ln) == [op |-> "start", call |-> "start", line |-> ln, n |-> 1]
Stop(ln) == [op |-> "stop", call |-> "stop", line |-> ln, n |-> 1]
Return(ln) == [op |-> "return", call |-> "return", line |-> ln, n |-> 1]

\* offboard_attitude_control.cpp, offb_ctrl_attitude (stop() is commented out)
AttitudeControl_offb_ctrl_attitude ==
    << Set("set_attitude", 76), Start(78),
       Set("set_attitude", 94), Set("set_attitude", 102), Set("set_attitude", 110),
       Set("set_attitude", 118), Set("set_attitude", 126), Set("set_attitude", 191),
       Set("set_attitude", 199), Return(210) >>

\* offboard_velocity.cpp, offb_ctrl_attitude (stop() is commented out)
Velocity_offb_ctrl_attitude ==
    << Set("set_attitude", 80), Start(82),
       Set("set_attitude", 89), Set("set_attitude", 107), Set("set_attitude", 112),
       Set("set_attitude", 116), Set("set_attitude", 121), Set("set_attitude", 126),
       Set("set_velocity_body", 144), Return(152) >>

\* offboard_velocity_working.cpp, offb_ctrl_ned.  Line 120 assigns
\* up_and_south.down_m_s = 1.0f and line 121 sends down_and_north.
Working_offb_ctrl_ned ==
    << SetVar("set_velocity_ned", "stay", "stay", << >>, 72),
       Start(74),
       SetVar("set_velocity_ned", "turn_east", "turn_east",
              << << "turn_east", "yaw", 9000 >> >>, 85),
       For("set_velocity_ned", 100, LoopSteps),
       SetVar("set_velocity_ned", "turn_west", "turn_west",
              << << "turn_west", "yaw", 27000 >> >>, 108),
       SetVar("set_velocity_ned", "up_and_south", "up_and_south",
              << << "up_and_south", "down", -200 >>, << "up_and_south", "yaw", 18000 >> >>, 115),
       SetVar("set_velocity_ned", "down_and_north", "down_and_north",
              << << "up_and_south", "down", 100 >> >>, 121),
       Stop(124), Return(131) >>

\* offboard_velocity_working.cpp, offb_ctrl_body
Working_offb_ctrl_body ==
    << Set("set_velocity_body", 147), Start(149),
       Set("set_velocity_body", 160), Set("set_velocity_body", 167),
       Set("set_velocity_body", 171), Set("set_velocity_body", 178),
       Set("set_velocity_body", 182), Set("set_velocity_body", 188),
       Set("set_velocity_body", 192), Stop(195), Return(202) >>

\* offboard_velocity_working.cpp, offb_ctrl_attitude (stop() is commented out)
Working_offb_ctrl_attitude ==
    << Set("set_attitude", 217), Start(219),
       Set("set_attitude", 227), Set("set_attitude", 232), Set("set_attitude", 237),
       Set("set_attitude", 242), Return(252) >>

\* offboard_vision.cpp, offb_ctrl_ned
Vision_offb_ctrl_ned ==
    << Set("set_velocity_ned", 200), Start(202),
       Set("set_position_ned", 216), Set("set_position_ned", 223),
       Set("set_position_ned", 230), Set("set_position_ned", 237),
       Set("set_position_ned", 244), Stop(247), Return(254) >>

\* offboard_vision.cpp, offb_ctrl_body
Vision_offb_ctrl_body ==
    << Set("set_velocity_body", 270), Start(272),
       Set("set_velocity_body", 283), Set("set_velocity_body", 290),
       Set("set_velocity_body", 294), Set("set_velocity_body", 301),
       Set("set_velocity_body", 305), Set("set_velocity_body", 311),
       Set("set_velocity_body", 315), Stop(318), Return(325) >>

\* offboard_vision.cpp, offb_ctrl_attitude
Vision_offb_ctrl_attitude ==
    << Set("set_attitude", 340), Start(342),
       Set("set_attitude", 350), Set("set_attitude", 355), Set("set_attitude", 360),
       Set("set_attitude", 365), Stop(368), Return(375) >>

Routines ==
    { "AttitudeControl_offb_ctrl_attitude", "Velocity_offb_ctrl_attitude",
      "Working_offb_ctrl_ned", "Working_offb_ctrl_body", "Working_offb_ctrl_attitude",
      "Vision_offb_ctrl_ned", "Vision_offb_ctrl_body", "Vision_offb_ctrl_attitude" }

Script(r) ==
    CASE r = "AttitudeControl_offb_ctrl_attitude" -> AttitudeControl_offb_ctrl_attitude
      [] r = "Velocity_offb_ctrl_attitude" -> Velocity_offb_ctrl_attitude
      [] r = "Working_offb_ctrl_ned" -> Working_offb_ctrl_ned
      [] r = "Working_offb_ctrl_body" -> Working_offb_ctrl_body
      [] r = "Working_offb_ctrl_attitude" -> Working_offb_ctrl_attitude
      [] r = "Vision_offb_ctrl_ned" -> Vision_offb_ctrl_ned
      [] r = "Vision_offb_ctrl_body" -> Vision_offb_ctrl_body
      [] r = "Vision_offb_ctrl_attitude" -> Vision_offb_ctrl_attitude

\* OnStartFail with every routine handing the result to offboard_error_exit
OnStartFail_AlwaysExit(r) == "exit"

\* What a routine does when offboard.start() did not return Success:
\* offboard_velocity.cpp hands the result to offboard_error_exit, which calls
\* exit(EXIT_FAILURE); every other routine returns false.
OnStartFail(r) == IF r = "Velocity_offb_ctrl_attitude" THEN "exit" ELSE "false"

(***************************************************************************)
(* The main() functions.  A main is modelled like a routine: its script    *)
(* lists its statements in program order.  fail says what the statement    *)
(* does with a result other than Success: "return1" (checked, main returns *)
(* 1), "ignore" (discarded or only printed), "none" (the statement has no  *)
(* result).                                                                *)
(***************************************************************************)
MStmt(op, ln, fail) == [op |-> op, line |-> ln, n |-> 1, fail |-> fail, routine |-> "none"]
Argc(ln) == MStmt("argc", ln, "return1")
Checked(op, ln) == MStmt(op, ln, "return1")
Ignored(op, ln) == MStmt(op, ln, "ignore")
Plain(op, ln) == MStmt(op, ln, "none")
Loop(op, ln, n, fail) == [op |-> op, line |-> ln, n |-> n, fail |-> fail, routine |-> "none"]
Call(r, ln) == [op |-> "call", line |-> ln, n |-> 1, fail |-> "return1", routine |-> r]
Return0(ln) == MStmt("return0", ln, "none")

\* mavsdk.subscribe_on_new_system(cb) or telemetry.subscribe_landed_state(cb), after
\* the declaration of the promise prom that the callback captures by reference
Subscribe(cb, prom, ln) ==
    [op |-> "subscribe", line |-> ln, n |-> 1, fail |-> "none", routine |-> "none",
     cb |-> cb, prom |-> prom]

\* future.wait() (timed = FALSE) or future.wait_for(...) (timed = TRUE) on the future
\* of prom.  local: the wait is the last statement before the function that
\* declared prom returns, so prom is destroyed when the wait is over.
Wait(prom, timed, local, ln) ==
    [op |-> "wait", line |-> ln, n |-> 1, fail |-> "none", routine |-> "none",
     prom |-> prom, timed |-> timed, local |-> local]

\* if (!system) return 1;   if (... == std::future_status::timeout) return 1;
CheckWait(ln) == MStmt("check_wait", ln, "return1")

\* auto system = get_system(mavsdk); if (!system) return 1;
GetSystem(ln) ==
    << Subscribe("get_system", "discover", ln), Wait("discover", TRUE, TRUE, ln),
       CheckWait(ln) >>

\* offboard_velocity.cpp  wait_until_discover(mavsdk);
WaitUntilDiscover(ln) ==
    << Subscribe("wait_until_discover", "discover", ln), Wait("discover", FALSE, TRUE, ln) >>

\* offboard_velocity_working.cpp:298-312, the wait for LandedState::InAir
WaitInAir(ln) ==
    << Subscribe("in_air", "in_air", ln), Wait("in_air", TRUE, FALSE, ln), CheckWait(ln) >>

\* offboard_vision.cpp:113  for (int i = 0; i < 100; i++)
VisionSends == 100

\* offboard_read_blocking.cpp:92  for (unsigned i = 0; i < 10; ++i)
ReadRounds == 10

\* offboard_velocity_working.cpp, main
Working_main ==
    << Argc(256), Checked("connect", 262) >> \o GetSystem(269)
    \o << Checked("arm", 285), Checked("takeoff", 292) >> \o WaitInAir(309)
    \o << Call("Working_offb_ctrl_attitude", 315),
          Checked("land", 329), Plain("wait_landed", 336), Return0(347) >>

\* offboard_velocity.cpp, main
Velocity_main ==
    << Argc(189), Checked("connect", 191) >> \o WaitUntilDiscover(204)
    \o << Ignored("mocap", 231),
          Checked("arm", 240), Call("Velocity_offb_ctrl_attitude", 249),
          Ignored("kill", 255), Return0(258) >>

\* AttitudeControl_main with arm and the offboard routine exchanged
AttitudeControl_main_ArmLate ==
    << Argc(214), Checked("connect", 220) >> \o GetSystem(227)
    \o << Call("AttitudeControl_offb_ctrl_attitude", 273), Checked("arm", 243),
          Ignored("kill", 303), Return0(309) >>

\* offboard_attitude_control.cpp, main
AttitudeControl_main ==
    << Argc(214), Checked("connect", 220) >> \o GetSystem(227)
    \o << Checked("arm", 243),
          Call("AttitudeControl_offb_ctrl_attitude", 273),
          Ignored("kill", 303), Return0(309) >>

\* offboard_vision.cpp, first main (vision position estimates)
VisionEstimate_main ==
    << Argc(64), Checked("connect", 70) >> \o GetSystem(77)
    \o << Loop("vision_estimate", 114, VisionSends, "ignore"), Return0(126) >>

\* offboard_vision.cpp, second main (offboard control in NED coordinates)
Vision_main ==
    << Argc(379), Checked("connect", 385) >> \o GetSystem(392)
    \o << Checked("arm", 408),
          Checked("takeoff", 415), Call("Vision_offb_ctrl_ned", 445),
          Checked("land", 454), Plain("wait_landed", 461), Return0(472) >>

\* offboard_telemetry_health.cpp, main
TelemetryHealth_main ==
    << Argc(92), Checked("connect", 98) >> \o GetSystem(105)
    \o << Plain("subscribe_health", 147), Plain("subscribe_rc_status", 148), Return0(159) >>

\* offboard_read_blocking.cpp, main
ReadBlocking_main ==
    << Argc(69), Checked("connect", 75) >> \o GetSystem(82)
    \o << Loop("read_telemetry", 92, ReadRounds, "none"), Return0(118) >>

Programs ==
    { "Working_main", "Velocity_main", "AttitudeControl_main", "VisionEstimate_main",
      "Vision_main", "TelemetryHealth_main", "ReadBlocking_main" }

MainScript(p) ==
    CASE p = "Working_main" -> Working_main
      [] p = "Velocity_main" -> Velocity_main
      [] p = "AttitudeControl_main" -> AttitudeControl_main
      [] p = "VisionEstimate_main" -> VisionEstimate_main
      [] p = "Vision_main" -> Vision_main
      [] p = "TelemetryHealth_main" -> TelemetryHealth_main
      [] p = "ReadBlocking_main" -> ReadBlocking_main

\* exitCode while the process is running
NoExit == -1

\* exitCode of a process ended by std::terminate or by a fault, not by a return
\* from main or exit()
Abnormal == -2

\* most notifications MAVSDK delivers to the callbacks during one run
MaxNotify == 3

\* the promises the callbacks capture by reference: prom / discover_promise of
\* get_system / wait_until_discover, in_air_promise of main
Promises == {"discover", "in_air"}

\* Telemetry::LandedState
LandedStates == {"OnGround", "TakingOff", "InAir", "Landing"}

\* What the build can do when a callback calls set_value() through its dangling
\* reference to a destroyed promise: the write goes unnoticed, or the process
\* is ended by a fault.
DanglingOutcomes == {"unnoticed", "fault"}

VARIABLES
    routine,      \* the offb_ctrl_* routine that is running
    pc,           \* position in the routine's script
    i,            \* loop counter of the for statement
    primed,       \* a setpoint was set on the Offboard object before start()
    startResult,  \* what offboard.start() returned, "none" before the call
    stopCalls,    \* number of calls of offboard.stop()
    stopResult,   \* what offboard.stop() returned, "none" before the call
    idx,          \* number of setpoint steps executed since start()
    failedAt,     \* index of the first setpoint step whose set_* call failed
    ret,          \* "running", or how the routine ended: "true", "false", "exit"
    locals,       \* the local VelocityNedYaw variables of offb_ctrl_ned
    sent,         \* the last setpoint of offb_ctrl_ned handed to set_velocity_ned
    program,      \* the main() that is running, "none" when a routine runs by itself
    mpc,          \* position in the main's script
    mi,           \* loop counter of main's for statement
    events,       \* statements main has completed, in order of first completion
    ignoredFail,  \* a call whose result main discards or only prints did not succeed
    observed,     \* the value main received from the routine it called
    newSystemCb,  \* the callback subscribed with mavsdk.subscribe_on_new_system
    landedStateCb,\* the callback subscribed with telemetry.subscribe_landed_state
    promise,      \* per promise: "unborn", "pending", "set", "destroyed"
    setCalls,     \* per promise: number of set_value() calls made by callbacks
    lateInvoked,  \* promises whose callback was invoked after the promise was destroyed
    notes,        \* number of notifications delivered
    found,        \* outcome of the last wait: "none", "yes", "no", "returning"
    timedOut,     \* promises whose wait_for timed out
    system,       \* what get_system hands back: "none", "autopilot", "empty"
    exitCode      \* exit status of the process, NoExit while it runs

\* the subscriptions and promises
envVars == << newSystemCb, landedStateCb, promise, setCalls, lateInvoked, notes, found,
              timedOut, system >>

mainVars == << program, mpc, mi, events, ignoredFail, observed, envVars >>

routineVars == << routine, pc, i, primed, startResult, stopCalls, stopResult, idx, failedAt, ret,
                  locals, sent >>

\* sent before the first modelled call
NoSent == [var |-> "none", value |-> ZeroNed, line |-> 0, assigned |-> {}]

vars == << routine, pc, i, primed, startResult, stopCalls, stopResult, idx, failedAt, ret,
           locals, sent, program, mpc, mi, events, ignoredFail, observed, envVars, exitCode >>

Stmt == Script(routine)[pc]

Init ==
    /\ routine \in Routines
    /\ pc = 1
    /\ i = 0
    /\ primed = FALSE
    /\ startResult = "none"
    /\ stopCalls = 0
    /\ stopResult = "none"
    /\ idx = 0
    /\ failedAt = NoFail
    /\ ret = "running"
    /\ locals = [v \in NedVars |-> ZeroNed]
    /\ sent = NoSent
    /\ newSystemCb = "none"
    /\ landedStateCb = "none"
    /\ promise = [p \in Promises |-> "unborn"]
    /\ setCalls = [p \in Promises |-> 0]
    /\ lateInvoked = {}
    /\ notes = 0
    /\ found = "none"
    /\ timedOut = {}
    /\ system = "none"
    /\ program = "none"
    /\ mpc = 0
    /\ mi = 0
    /\ events = << >>
    /\ ignoredFail = FALSE
    /\ observed = "none"
    /\ exitCode = NoExit

\* The effect of one offboard.set_*(...) statement.  The call returns a Result
\* which the statement discards: the routine goes on whatever r is.
DoSet(r) ==
    IF startResult = "none"
    THEN /\ primed' = TRUE
         /\ UNCHANGED << idx, failedAt >>
    ELSE /\ idx' = idx + 1
         /\ failedAt' = IF r # "Success" /\ failedAt = NoFail THEN idx ELSE failedAt
         /\ UNCHANGED primed

RECURSIVE ApplyAssigns(_, _)
\* the field assignments of a step, executed in program order on the locals l
ApplyAssigns(l, as) ==
    IF as = << >>
    THEN l
    ELSE ApplyAssigns([l EXCEPT ![as[1][1]] = [@ EXCEPT ![as[1][2]] = as[1][3]]], Tail(as))

\* The statements of one step of offb_ctrl_ned: declare decl{}, execute the
\* assignments, hand the variable var to offboard.set_velocity_ned.  A step
\* whose values are not modelled (var = "none") leaves locals and sent alone.
DoSend(decl, assigns, var, ln) ==
    LET declared == IF decl = "none" THEN locals ELSE [locals EXCEPT ![decl] = ZeroNed]
        assigned == ApplyAssigns(declared, assigns)
    IN  /\ locals' = assigned
        /\ sent' = IF var = "none"
                   THEN sent
                   ELSE [var |-> var, value |-> assigned[var], line |-> ln,
                         assigned |-> { assigns[k][1] : k \in DOMAIN assigns }]

\* offboard.set_*(setpoint); sleep_for(...);
SetStep ==
    /\ ret = "running"
    /\ exitCode = NoExit
    /\ Stmt.op = "set"
    /\ \E r \in Results : DoSet(r)
    /\ DoSend(Stmt.decl, Stmt.assigns, Stmt.var, Stmt.line)
    /\ pc' = pc + 1
    /\ UNCHANGED << routine, i, startResult, stopCalls, stopResult, ret, mainVars, exitCode >>

\* for (unsigned i = 0; i < steps; ++i) { ...; offboard.set_velocity_ned(...); sleep_for(10ms); }
ForBody ==
    /\ ret = "running"
    /\ exitCode = NoExit
    /\ Stmt.op = "for"
    /\ i < Stmt.n
    /\ \E r \in Results : DoSet(r)
    /\ DoSend("north_and_back_south", LoopAssigns(i), "north_and_back_south", Stmt.line)
    /\ i' = i + 1
    /\ UNCHANGED << routine, pc, startResult, stopCalls, stopResult, ret, mainVars, exitCode >>

\* the loop condition i < steps is false
ForExit ==
    /\ ret = "running"
    /\ exitCode = NoExit
    /\ Stmt.op = "for"
    /\ ~(i < Stmt.n)
    /\ i' = 0
    /\ pc' = pc + 1
    /\ UNCHANGED << routine, primed, startResult, stopCalls, stopResult, idx, failedAt, ret,
                    locals, sent, mainVars, exitCode >>

\* StartStep without the check of offboard_result: the routine goes on after a failed start()
StartStep_IgnoresFailure ==
    /\ ret = "running"
    /\ exitCode = NoExit
    /\ Stmt.op = "start"
    /\ \E r \in Results : startResult' = r
    /\ pc' = pc + 1
    /\ UNCHANGED << routine, i, primed, stopCalls, stopResult, idx, failedAt, ret,
                    locals, sent, mainVars, exitCode >>

\* offboard_result = offboard.start(); if (offboard_result != Success) return false / exit
StartStep ==
    /\ ret = "running"
    /\ exitCode = NoExit
    /\ Stmt.op = "start"
    /\ \E r \in Results :
         /\ startResult' = r
         /\ IF r # "Success"
            THEN /\ ret' = OnStartFail(routine)
                 /\ exitCode' = IF OnStartFail(routine) = "exit" THEN 1 ELSE exitCode
                 /\ UNCHANGED pc
            ELSE /\ pc' = pc + 1
                 /\ UNCHANGED << ret, exitCode >>
    /\ UNCHANGED << routine, i, primed, stopCalls, stopResult, idx, failedAt, locals, sent,
                    mainVars >>

\* offboard_result = offboard.stop(); if (offboard_result != Success) return false
StopStep ==
    /\ ret = "running"
    /\ exitCode = NoExit
    /\ Stmt.op = "stop"
    /\ stopCalls' = stopCalls + 1
    /\ \E r \in Results :
         /\ stopResult' = r
         /\ IF r # "Success"
            THEN /\ ret' = "false"
                 /\ UNCHANGED pc
            ELSE /\ pc' = pc + 1
                 /\ UNCHANGED ret
    /\ UNCHANGED << routine, i, primed, startResult, idx, failedAt, locals, sent,
                    mainVars, exitCode >>

\* return true;
ReturnStep ==
    /\ ret = "running"
    /\ exitCode = NoExit
    /\ Stmt.op = "return"
    /\ ret' = "true"
    /\ UNCHANGED << routine, pc, i, primed, startResult, stopCalls, stopResult, idx, failedAt,
                    locals, sent, mainVars, exitCode >>

Next ==
    \/ SetStep
    \/ ForBody
    \/ ForExit
    \/ StartStep
    \/ StopStep
    \/ ReturnStep

Spec == Init /\ [][Next]_vars

(***************************************************************************)
(* The main() functions, statement by statement.                           *)
(***************************************************************************)
MainStmt == MainScript(program)[mpc]

Range(f) == { f[k] : k \in DOMAIN f }

Record(e) == IF e \in Range(events) THEN events ELSE Append(events, e)

\* main is running and is not inside the routine it calls
MainActive ==
    /\ program # "none"
    /\ exitCode = NoExit
    /\ ret = "not_called" \/ (ret = "true" /\ observed = "true")

InitMain ==
    /\ program \in Programs
    /\ mpc = 1
    /\ mi = 0
    /\ events = << >>
    /\ ignoredFail = FALSE
    /\ observed = "none"
    /\ exitCode = NoExit
    /\ routine = "none"
    /\ pc = 1
    /\ i = 0
    /\ primed = FALSE
    /\ startResult = "none"
    /\ stopCalls = 0
    /\ stopResult = "none"
    /\ idx = 0
    /\ failedAt = NoFail
    /\ ret = "not_called"
    /\ locals = [v \in NedVars |-> ZeroNed]
    /\ sent = NoSent
    /\ newSystemCb = "none"
    /\ landedStateCb = "none"
    /\ promise = [p \in Promises |-> "unborn"]
    /\ setCalls = [p \in Promises |-> 0]
    /\ lateInvoked = {}
    /\ notes = 0
    /\ found = "none"
    /\ timedOut = {}
    /\ system = "none"

\* if (argc != 2) { usage(argv[0]); return 1; }
MainArgc ==
    /\ MainActive
    /\ MainStmt.op = "argc"
    /\ \E ok \in BOOLEAN :
         IF ok
         THEN /\ mpc' = mpc + 1
              /\ UNCHANGED exitCode
         ELSE /\ exitCode' = 1
              /\ UNCHANGED mpc
    /\ UNCHANGED << routineVars, envVars, program, mi, events, ignoredFail, observed >>

\* a call whose result main checks: add_any_connection, arm, takeoff, land:
\* if (result != Success) return 1;
MainChecked ==
    /\ MainActive
    /\ MainStmt.op \in {"connect", "arm", "takeoff", "land"}
    /\ \E ok \in BOOLEAN :
         IF ok
         THEN /\ mpc' = mpc + 1
              /\ events' = Record(MainStmt.op)
              /\ UNCHANGED exitCode
         ELSE /\ exitCode' = 1
              /\ UNCHANGED << mpc, events >>
    /\ UNCHANGED << routineVars, envVars, program, mi, ignoredFail, observed >>

\* a call whose result main discards or only prints:
\* mocap.set_attitude_position_mocap(mocap_msg); action.kill();
MainIgnored ==
    /\ MainActive
    /\ MainStmt.op \in {"mocap", "kill"}
    /\ \E r \in Results : ignoredFail' = (ignoredFail \/ r # "Success")
    /\ mpc' = mpc + 1
    /\ events' = Record(MainStmt.op)
    /\ UNCHANGED << routineVars, envVars, program, mi, observed, exitCode >>

\* body of main's for loop: the vision loop prints the Result of
\* set_vision_position_estimate, the read loop prints telemetry values
MainLoopBody ==
    /\ MainActive
    /\ MainStmt.op \in {"vision_estimate", "read_telemetry"}
    /\ mi < MainStmt.n
    /\ \E r \in (IF MainStmt.fail = "ignore" THEN Results ELSE {"Success"}) :
         ignoredFail' = (ignoredFail \/ r # "Success")
    /\ mi' = mi + 1
    /\ UNCHANGED << routineVars, envVars, program, mpc, events, observed, exitCode >>

\* the loop condition is false
MainLoopExit ==
    /\ MainActive
    /\ MainStmt.op \in {"vision_estimate", "read_telemetry"}
    /\ ~(mi < MainStmt.n)
    /\ mi' = 0
    /\ mpc' = mpc + 1
    /\ events' = Record(MainStmt.op)
    /\ UNCHANGED << routineVars, envVars, program, ignoredFail, observed, exitCode >>

\* a statement without a result: subscribe_health, subscribe_rc_status,
\* while (telemetry.in_air()) sleep_for(1s);
MainPlain ==
    /\ MainActive
    /\ MainStmt.op \in {"subscribe_health", "subscribe_rc_status", "wait_landed"}
    /\ mpc' = mpc + 1
    /\ events' = Record(MainStmt.op)
    /\ UNCHANGED << routineVars, envVars, program, mi, ignoredFail, observed, exitCode >>

\* main enters offb_ctrl_*(offboard)
MainCall ==
    /\ MainActive
    /\ MainStmt.op = "call"
    /\ ret = "not_called"
    /\ routine' = MainStmt.routine
    /\ ret' = "running"
    /\ events' = Record("call")
    /\ UNCHANGED << pc, i, primed, startResult, stopCalls, stopResult, idx, failedAt,
                    locals, sent, program, mpc, mi, ignoredFail, observed, envVars, exitCode >>

\* MainObserve with main going on to its next statement whatever the routine returned
MainObserve_IgnoresResult ==
    /\ program # "none"
    /\ exitCode = NoExit
    /\ ret \in {"true", "false"}
    /\ observed = "none"
    /\ observed' = ret
    /\ mpc' = mpc + 1
    /\ UNCHANGED exitCode
    /\ UNCHANGED << routineVars, envVars, program, mi, events, ignoredFail >>

\* the routine returned: if (!offb_ctrl_*(offboard)) return 1;
MainObserve ==
    /\ program # "none"
    /\ exitCode = NoExit
    /\ ret \in {"true", "false"}
    /\ observed = "none"
    /\ observed' = ret
    /\ IF ret = "false"
       THEN /\ exitCode' = 1
            /\ UNCHANGED mpc
       ELSE /\ mpc' = mpc + 1
            /\ UNCHANGED exitCode
    /\ UNCHANGED << routineVars, envVars, program, mi, events, ignoredFail >>

\* auto prom = std::promise<...>{}; auto fut = prom.get_future();
\* mavsdk.subscribe_on_new_system([&mavsdk, &prom]() {...});  or
\* telemetry.subscribe_landed_state([&telemetry, &in_air_promise](...) {...});
MainSubscribe ==
    /\ MainActive
    /\ MainStmt.op = "subscribe"
    /\ promise' = [promise EXCEPT ![MainStmt.prom] = "pending"]
    /\ IF MainStmt.cb = "in_air"
       THEN /\ landedStateCb' = MainStmt.cb
            /\ UNCHANGED newSystemCb
       ELSE /\ newSystemCb' = MainStmt.cb
            /\ UNCHANGED landedStateCb
    /\ mpc' = mpc + 1
    /\ UNCHANGED << routineVars, program, mi, events, ignoredFail, observed,
                    setCalls, lateInvoked, notes, found, timedOut, system, exitCode >>

\* fut.wait_for(seconds(3)) and the return of get_system; discover_future.wait()
\* and the return of wait_until_discover; in_air_future.wait_for(seconds(10))
\* followed by in_air_future.wait_for(seconds(3)).  The wait is over when the
\* promise is set, and a timed wait also when the time has passed with the
\* promise still pending.  A promise local to the function is destroyed when
\* the function returns.
MainWait ==
    /\ MainActive
    /\ MainStmt.op = "wait"
    /\ LET p == MainStmt.prom
       IN  /\ \/ /\ promise[p] = "set"
                 /\ found' = IF MainStmt.timed THEN "yes" ELSE found
                 /\ events' = Record(IF p = "in_air" THEN "wait_in_air" ELSE "discover")
                 /\ UNCHANGED << timedOut, system >>
              \/ /\ MainStmt.timed
                 /\ promise[p] = "pending"
                 /\ found' = "no"
                 /\ timedOut' = timedOut \cup {p}
                 /\ system' = IF p = "discover" THEN "empty" ELSE system
                 /\ UNCHANGED events
           /\ promise' = IF MainStmt.local THEN [promise EXCEPT ![p] = "destroyed"] ELSE promise
    /\ mpc' = mpc + 1
    /\ UNCHANGED << routineVars, program, mi, ignoredFail, observed,
                    newSystemCb, landedStateCb, setCalls, lateInvoked, notes, exitCode >>

\* if (!system) { return 1; }
\* if (in_air_future.wait_for(seconds(3)) == std::future_status::timeout) { return 1; }
\* return 1 first destroys the locals of main, its promise among them.
MainCheckWait ==
    /\ MainActive
    /\ MainStmt.op = "check_wait"
    /\ found \in {"yes", "no"}
    /\ IF found = "yes"
       THEN /\ mpc' = mpc + 1
            /\ found' = "none"
            /\ UNCHANGED promise
       ELSE /\ found' = "returning"
            /\ promise' = [p \in Promises |->
                             IF promise[p] \in {"pending", "set"} THEN "destroyed" ELSE promise[p]]
            /\ UNCHANGED mpc
    /\ UNCHANGED << routineVars, program, mi, events, ignoredFail, observed,
                    newSystemCb, landedStateCb, setCalls, lateInvoked, notes, timedOut, system,
                    exitCode >>

\* the process ends with the status of the return 1 above
MainReturn1 ==
    /\ MainActive
    /\ found = "returning"
    /\ exitCode' = 1
    /\ UNCHANGED << routineVars, mainVars >>

\* prom.set_value(...) called by a callback through its reference to promise p.
\* On a promise that is already set it throws std::future_error, which nothing
\* catches: the process is terminated.  On a destroyed promise the behaviour is
\* undefined: out is what the build does.
SetValue(p, out) ==
    /\ setCalls' = [setCalls EXCEPT ![p] = @ + 1]
    /\ CASE promise[p] = "pending" ->
               /\ promise' = [promise EXCEPT ![p] = "set"]
               /\ UNCHANGED exitCode
         [] promise[p] = "set" ->
               /\ exitCode' = Abnormal
               /\ UNCHANGED promise
         [] promise[p] = "destroyed" ->
               /\ exitCode' = IF out = "fault" THEN Abnormal ELSE exitCode
               /\ UNCHANGED promise

\* MAVSDK invokes the callback subscribed for new systems.  has is the value of
\* system->has_autopilot() (get_system) or system->is_connected()
\* (wait_until_discover).  The callback of get_system unsubscribes before
\* prom.set_value(system); the callback of wait_until_discover stays subscribed.
NotifyNewSystem ==
    /\ program # "none"
    /\ exitCode = NoExit
    /\ newSystemCb # "none"
    /\ notes < MaxNotify
    /\ notes' = notes + 1
    /\ lateInvoked' = IF promise["discover"] = "destroyed"
                      THEN lateInvoked \cup {"discover"} ELSE lateInvoked
    /\ \E has \in BOOLEAN, out \in DanglingOutcomes :
         IF has
         THEN /\ newSystemCb' = IF newSystemCb = "get_system" THEN "none" ELSE newSystemCb
              /\ system' = IF newSystemCb = "get_system" /\ promise["discover"] = "pending"
                           THEN "autopilot" ELSE system
              /\ SetValue("discover", out)
         ELSE UNCHANGED << newSystemCb, system, setCalls, promise, exitCode >>
    /\ UNCHANGED << routineVars, program, mpc, mi, events, ignoredFail, observed,
                    landedStateCb, found, timedOut >>

\* MAVSDK invokes the landed-state callback with a sample:
\* if (state == InAir) { telemetry.subscribe_landed_state(nullptr);
\*                       in_air_promise.set_value(); }
NotifyLandedState ==
    /\ program # "none"
    /\ exitCode = NoExit
    /\ landedStateCb # "none"
    /\ notes < MaxNotify
    /\ notes' = notes + 1
    /\ lateInvoked' = IF promise["in_air"] = "destroyed"
                      THEN lateInvoked \cup {"in_air"} ELSE lateInvoked
    /\ \E state \in LandedStates, out \in DanglingOutcomes :
         IF state = "InAir"
         THEN /\ landedStateCb' = "none"
              /\ SetValue("in_air", out)
         ELSE UNCHANGED << landedStateCb, setCalls, promise, exitCode >>
    /\ UNCHANGED << routineVars, program, mpc, mi, events, ignoredFail, observed,
                    newSystemCb, found, timedOut, system >>

\* return 0;
MainReturn ==
    /\ MainActive
    /\ MainStmt.op = "return0"
    /\ exitCode' = 0
    /\ UNCHANGED << routineVars, mainVars >>

\* No main calls a routine that has a for statement (offb_ctrl_ned of
\* offboard_velocity_working.cpp is only called from commented-out code),
\* so ForBody and ForExit are not steps of a main.
NextMain ==
    \/ MainArgc
    \/ MainChecked
    \/ MainIgnored
    \/ MainLoopBody
    \/ MainLoopExit
    \/ MainPlain
    \/ MainCall
    \/ MainObserve
    \/ MainReturn
    \/ MainSubscribe
    \/ MainWait
    \/ MainCheckWait
    \/ MainReturn1
    \/ NotifyNewSystem
    \/ NotifyLandedState
    \/ SetStep
    \/ StartStep
    \/ StopStep
    \/ ReturnStep

SpecMain == InitMain /\ [][NextMain]_vars

TypeOK ==
    /\ routine \in Routines \cup {"none"}
    /\ routine # "none" => pc \in 1..Len(Script(routine))
    /\ i \in 0..LoopSteps
    /\ primed \in BOOLEAN
    /\ startResult \in Results \cup {"none"}
    /\ stopResult \in Results \cup {"none"}
    /\ stopCalls \in 0..1
    /\ idx \in Nat
    /\ failedAt \in {NoFail} \cup Nat
    /\ ret \in {"not_called", "running", "true", "false", "exit"}
    /\ DOMAIN locals = NedVars
    /\ sent.var \in NedVars \cup {"none"}
    /\ sent.assigned \subseteq NedVars
    /\ program \in Programs \cup {"none"}
    /\ program # "none" => mpc \in 1..Len(MainScript(program))
    /\ mi \in 0..VisionSends
    /\ ignoredFail \in BOOLEAN
    /\ observed \in {"none", "true", "false"}
    /\ newSystemCb \in {"none", "get_system", "wait_until_discover"}
    /\ landedStateCb \in {"none", "in_air"}
    /\ promise \in [Promises -> {"unborn", "pending", "set", "destroyed"}]
    /\ setCalls \in [Promises -> 0..MaxNotify]
    /\ lateInvoked \subseteq Promises
    /\ notes \in 0..MaxNotify
    /\ found \in {"none", "yes", "no", "returning"}
    /\ timedOut \subseteq Promises
    /\ system \in {"none", "autopilot", "empty"}
    /\ exitCode \in {NoExit, Abnormal, 0, 1}

(***************************************************************************)
(* C8: a scripted sequence calls start() before its first setpoint step    *)
(* and calls stop() after its last step or on abort, on every path: no     *)
(* setpoint step runs unless start() succeeded, and a routine that started *)
(* offboard and has returned has called stop().                            *)
(***************************************************************************)
C8_StartFirstStopLast ==
    /\ idx > 0 => startResult = "Success"
    /\ (ret \in {"true", "false"} /\ startResult = "Success") => stopCalls >= 1

(***************************************************************************)
(* C9: a failed setpoint update aborts the remaining script: no step after *)
(* the failing one is executed, and once the routine has ended stop() was  *)
(* called exactly once and the routine reported failure.                   *)
(***************************************************************************)
C9_FailedUpdateAborts ==
    failedAt # NoFail =>
        /\ idx = failedAt + 1
        /\ ret # "running" => (stopCalls = 1 /\ ret = "false")

(***************************************************************************)
(* C19: in every offb_ctrl_* routine, on every path, a setpoint has been   *)
(* set on the Offboard object before offboard.start() is invoked, and no   *)
(* setpoint is set after a start() that did not return Success: the        *)
(* routine has ended without executing a setpoint step.                    *)
(***************************************************************************)
C19_PrimedBeforeStart ==
    /\ startResult # "none" => primed
    /\ startResult \notin {"none", "Success"} => (idx = 0 /\ ret \in {"false", "exit"})

\* a routine whose start() failed after its priming setpoint
C19_Witness ==
    /\ primed
    /\ startResult = "Timeout"
    /\ ret = "false"

\* offboard.start() or offboard.stop() returned a Result other than Success
HandshakeFailed ==
    \/ startResult \notin {"none", "Success"}
    \/ stopResult \notin {"none", "Success"}

(***************************************************************************)
(* C16 as stated: a failed offboard start or stop is returned to the       *)
(* caller as a result value and never terminates the process.              *)
(***************************************************************************)
C16_FailureNeverTerminates ==
    HandshakeFailed => ret = "false"

(***************************************************************************)
(* C16 as amended: a failed offboard start or stop makes the routine       *)
(* return false, and main receives exactly the value the routine returned; *)
(* the exception is offb_ctrl_attitude of offboard_velocity.cpp, where a   *)
(* failed start terminates the process with status 1 before main receives  *)
(* anything.                                                               *)
(***************************************************************************)
C16_FailureReturnedOrExit ==
    /\ HandshakeFailed =>
          IF routine = "Velocity_offb_ctrl_attitude"
          THEN ret = "exit" /\ exitCode = 1 /\ observed = "none"
          ELSE ret = "false"
    /\ ret = "exit" => (routine = "Velocity_offb_ctrl_attitude" /\ HandshakeFailed)
    /\ observed # "none" => observed = ret

\* main has received false from a routine whose stop() timed out
C16_Witness ==
    /\ observed = "false"
    /\ stopResult = "Timeout"
    /\ exitCode = 1

(***************************************************************************)
(* C17: no failed operation (setpoint update, mocap or vision estimate     *)
(* send, kill command) is ignored while the program goes on as if it had   *)
(* succeeded: a program that ends with status 0 had no such failure.       *)
(***************************************************************************)
C17_NoFailureIgnored ==
    exitCode = 0 => (~ignoredFail /\ failedAt = NoFail)

Pos(e) == CHOOSE k \in DOMAIN events : events[k] = e

Before(a, b) ==
    /\ a \in Range(events)
    /\ b \in Range(events)
    /\ Pos(a) < Pos(b)

(***************************************************************************)
(* C18 as stated: every example program, on its successful path, adds a    *)
(* connection, discovers a remote system, arms it, runs its setpoint       *)
(* sequence and disarms it, in this order.                                 *)
(***************************************************************************)
C18_ConnectDiscoverArmRunDisarm ==
    exitCode = 0 =>
        /\ Before("connect", "discover")
        /\ Before("discover", "arm")
        /\ Before("arm", "call")
        /\ Before("call", "disarm")

(***************************************************************************)
(* C18 as amended: every example program, on its successful path, adds a   *)
(* connection and then discovers a remote system; a program that runs a    *)
(* setpoint sequence arms after discovery and before the sequence; the     *)
(* telemetry_health, read_blocking and vision-estimate programs neither    *)
(* arm nor run a setpoint sequence; no program issues a disarm command.    *)
(***************************************************************************)
C18_ConnectDiscoverThenArmBeforeRun ==
    exitCode = 0 =>
        /\ Before("connect", "discover")
        /\ "call" \in Range(events) <=>
              program \in {"Working_main", "Velocity_main", "AttitudeControl_main", "Vision_main"}
        /\ "call" \in Range(events) => (Before("discover", "arm") /\ Before("arm", "call"))
        /\ "call" \notin Range(events) => "arm" \notin Range(events)
        /\ "disarm" \notin Range(events)

\* a program that ran its setpoint sequence, killed the motors and ended with status 0
C18_Witness ==
    /\ exitCode = 0
    /\ program = "AttitudeControl_main"
    /\ Before("call", "kill")

(***************************************************************************)
(* C23: in offb_ctrl_ned of offboard_velocity_working.cpp the setpoint     *)
(* sent in the step "Go down 1 m/s, turn to face North" (line 121)         *)
(* commands a down velocity of 1 m/s, and every setpoint sent is the       *)
(* structure whose fields were assigned for that step.                     *)
(***************************************************************************)
C23_SentIsAssigned ==
    routine = "Working_offb_ctrl_ned" =>
        /\ sent.line = 121 => sent.value.down = 100
        /\ sent.assigned \subseteq {sent.var}

(***************************************************************************)
(* C24: in get_system (offboard_attitude_control.cpp) the promise is       *)
(* fulfilled at most once for any number and interleaving of new-system    *)
(* notifications, the system returned reported has_autopilot, and when no  *)
(* autopilot is discovered within the 3 second wait the function returns   *)
(* an empty pointer and the caller exits with status 1 without arming.     *)
(***************************************************************************)
C24_GetSystemOnceElseExit1 ==
    program = "AttitudeControl_main" =>
        /\ setCalls["discover"] <= 1
        /\ "discover" \in Range(events) => system = "autopilot"
        /\ "discover" \in timedOut =>
              /\ system = "empty"
              /\ "arm" \notin Range(events)
              /\ exitCode \in {NoExit, 1}

(***************************************************************************)
(* C25: in wait_until_discover of offboard_velocity.cpp discover_promise   *)
(* is fulfilled at most once for any number of new-system notifications,   *)
(* and the discovery callback is never invoked after wait_until_discover   *)
(* has returned and its captured promise has gone out of scope.            *)
(***************************************************************************)
C25_DiscoverOnceNeverLate ==
    program = "Velocity_main" =>
        /\ setCalls["discover"] <= 1
        /\ "discover" \notin lateInvoked

(***************************************************************************)
(* C26: in main of offboard_velocity_working.cpp offboard control is       *)
(* started only after arm succeeded, takeoff succeeded and the callback    *)
(* observed a landed-state sample InAir; if InAir is not observed within   *)
(* the two bounded waits the program returns 1 and offboard.start() is     *)
(* never called.                                                           *)
(***************************************************************************)
C26_StartAfterInAirElseReturn1 ==
    program = "Working_main" =>
        /\ startResult # "none" =>
              /\ Before("arm", "takeoff")
              /\ Before("takeoff", "wait_in_air")
              /\ promise["in_air"] = "set"
        /\ "in_air" \in timedOut =>
              /\ startResult = "none"
              /\ "call" \notin Range(events)
              /\ exitCode \in {NoExit, 1}

(***************************************************************************)
(* C27: in the examples that take off, main reaches action.land() only     *)
(* after the offboard routine returned true; when offboard start or stop   *)
(* fails after a successful takeoff, main receives false and the process   *)
(* exits with status 1 without commanding land, a further offboard stop,   *)
(* kill or disarm.                                                         *)
(***************************************************************************)
C27_LandOnlyAfterRoutineTrue ==
    program \in {"Working_main", "Vision_main"} =>
        /\ MainStmt.op \in {"land", "wait_landed", "return0"} =>
              (ret = "true" /\ observed = "true" /\ "takeoff" \in Range(events))
        /\ HandshakeFailed =>
              /\ "takeoff" \in Range(events)
              /\ MainStmt.op = "call"
              /\ Range(events) \cap {"land", "kill", "disarm"} = {}
              /\ stopCalls = (IF startResult = "Success" THEN 1 ELSE 0)
              /\ ret = "false"
              /\ observed \in {"none", "false"}
              /\ exitCode = (IF observed = "false" THEN 1 ELSE NoExit)

\* after a successful takeoff offboard stop timed out and the process ended with
\* status 1, the vehicle neither landed nor disarmed
C27_Witness ==
    /\ program = "Vision_main"
    /\ "takeoff" \in Range(events)
    /\ stopResult = "Timeout"
    /\ observed = "false"
    /\ exitCode = 1
    /\ "land" \notin Range(events)

====
